---- MODULE Spec2Model ----
(***************************************************************************)
(* Device-control backend of the H.Airbrush plotter:                       *)
(*   web_controller/job_manager.py     Job, JobManager and its worker      *)
(*   web_controller/duet_client.py     DuetClient (HTTP protocol client)   *)
(*   web_controller/machine_control.py MachineControl (domain operations)  *)
(* Every thread is a program counter; one action is one statement (or one  *)
(* block of statements touching no state shared with another thread).      *)
(***************************************************************************)
EXTENDS Integers, Sequences, FiniteSets, TLC

\* ---------------------------------------------------------------- bounds
NumJobs == 2
MaxLines == 3
MaxWorkers == 2
MaxConnects == 2

\* ------------------------------------------------------------- constants
None == 0
JobIds == 1..NumJobs
Workers == 1..MaxWorkers
Caller == 0
Nobody == -1
Threads == {Caller} \cup Workers
Brushes == {"a", "b"}
Axes == {"X", "Y", "Z"}
Outcomes == {"ok", "neterr"}

\* --------------------------------------------------------- G-code files
\* Lines are kept by kind: an ordinary command, a comment, a blank line,
\* the motion-wait barrier.  The file of job j takes every j-th kind of the
\* pattern: job 1 has comments and blank lines, job 2 has none.
Pattern == <<"G1", ";", "M400", "">>
File(j) == [k \in 1..MaxLines |-> Pattern[((j * (k - 1)) % 4) + 1]]

\* (a loop that also skips the barrier lines)
IsSkippedNotG1(line) == line # "G1"

\* job_manager.py:398-400  line.strip(); not line or line.startswith(';')
IsSkipped(line) == line = "" \/ line = ";"

\* job_manager.py:408  line.startswith('M400')
IsBarrier(line) == line = "M400"

\* job_manager.py:47  total_lines = sum(1 for _ in f)
TotalLines(j) == Len(File(j))

\* job_manager.py:424  progress = (i + 1) / len(lines) * 100, kept as the
\* exact fraction <<numerator, denominator>> of a percentage
ProgressAt(i, n) == <<(i + 1) * 100, n>>
ProgressZero == <<0, 1>>

\* (a completion that leaves the progress short of 100)
ProgressShort == <<9999, 100>>

\* job_manager.py:435  progress = 100.0
ProgressFull == <<100, 1>>

\* job_manager.py:33-42  Job.__init__
NewJob == [status |-> "ready", progress |-> ProgressZero, start_time |-> FALSE,
           end_time |-> FALSE, current_line |-> 0, error |-> None]

VARIABLES
    jobs,         \* the Job objects, by id
    registry,     \* JobManager.jobs: the ids of the jobs that are registered
                  \* (a registered job has its file in the upload folder)
    current_job,  \* JobManager.current_job (None or a job)
    job_thread,   \* JobManager.job_thread (None or a worker)
    stop_event,   \* JobManager.stop_event
    workers,      \* the threads running _run_job: pc, job, loop index
    api,          \* the thread calling the public operations
    connected,    \* DuetClient.connected
    cc,           \* per thread: the DuetClient.send_command call in progress
    is_homed,     \* MachineControl.is_homed
    brush_state,  \* MachineControl.brush_state
    position,     \* MachineControl.position, the cached X, Y, Z
    mc,           \* the thread calling the MachineControl operations
    sent,         \* per worker: indices of the lines handed to send_gcode
    serial,       \* the SerialService object
    read_threads, \* the threads running SerialService._read_thread
    sapi,         \* the thread calling the SerialService operations
    last_gcode    \* the device: the thread whose command it accepted last and
                  \* whose reply has not been fetched yet

vars == <<jobs, registry, current_job, job_thread, stop_event, workers, api, connected,
          cc, is_homed, brush_state, position, mc, sent, serial, read_threads, sapi,
          last_gcode>>

jmVars == <<jobs, registry, current_job, job_thread, stop_event>>
mcVars == <<is_homed, brush_state, position, mc>>
svVars == <<serial, read_threads, sapi>>

\* the api thread: where it is, the operation it runs or last ran, the job
\* that operation acted on, the status that job had when pause_job or stop_job
\* took effect, the current_line that job had when pause_job returned, and
\* the last result
Idle == [pc |-> "idle", op |-> "none", job |-> None, was |-> "none", line |-> -1,
         result |-> "none"]
\* a send_command call: its position, the command, the connected flag it
\* found, the connect() calls it made and what the last returned, the
\* submits and reply fetches it issued, and its result; the thread whose
\* command the fetched reply answers, and whether a request of another
\* thread reached the device between this call's submit and its fetch
NoCall == [pc |-> "none", cmd |-> "none", wasConn |-> TRUE, connects |-> 0,
           conn |-> "none", submits |-> 0, replies |-> 0, result |-> "none",
           got |-> Nobody, crossed |-> FALSE]
\* a worker: its position, its job, the 1-based index of the line of this
\* iteration, and the result of its last send_gcode
Unborn == [pc |-> "unborn", job |-> None, i |-> 0, res |-> "none"]

\* coordinate values of a position report, and a position with no axis set
Coords == {0, 1, 2}
Unset == -1
NoPosition == [k \in {"x", "y", "z"} |-> Unset]

\* the control thread: where it is, the operation it runs or last ran with its
\* brush, flag and value, whether anything was homed or switched on when the
\* operation was called, the result of the device send (for a send through
\* send_command_and_wait: of the command, of the barrier, and the result
\* returned), and the last result;
\* for an operation of the client: the connected flag it found, what the
\* device answered to the connect request and what it answers to a status
\* probe, and the requests the operation issued, in order; for a position
\* query: the tokens of the reply and the position parsed from them; for a
\* paint flow: the percentage asked for and the servo angle sent; for a
\* motion routine: its steps and the one it is at; and the send_command
\* calls the operation has completed, in order, each with its result; for
\* process_gcode_file: the file, the 1-based index of the line the loop is
\* at (in step), processed_lines, and the line number of the error message
McIdle == [pc |-> "idle", op |-> "none", brush |-> "none", flag |-> "none",
           on |-> FALSE, pre |-> FALSE, cmdres |-> "none", barres |-> "none",
           sendres |-> "none", result |-> "none",
           wasConn |-> FALSE, reply |-> "none", probe |-> "none", reqs |-> <<>>,
           parts |-> <<>>, parsed |-> NoPosition, pct |-> 0, angle |-> Unset,
           script |-> <<>>, step |-> 0, log |-> <<>>,
           file |-> None, processed |-> 0, errline |-> 0]

\* the serial connections opened so far are numbered 1, 2, ...; the reader
\* thread started for a connection carries its number
Readers == 1..MaxConnects

\* serial_service.py:34-44 SerialService.__init__: serial_port (None, or the
\* number of the connection the Serial object was opened for) and whether
\* that object is open, is_connected, the stop_thread event, read_thread
\* (None or a reader), and last_found_ip (None, or the number of the
\* connection the address was read on)
NoPort == [serial_port |-> None, is_open |-> FALSE, is_connected |-> FALSE,
           stop_thread |-> FALSE, read_thread |-> None, last_found_ip |-> None]

\* the serial caller: where it is, the operation it runs or last ran, its
\* result, and the address get_ip_address returned (the number of the
\* connection it was read on)
SIdle == [pc |-> "idle", op |-> "none", result |-> "none", ip |-> None]

\* a thread is alive from its start until _run_job returns: "finished" after
\* a natural completion, "dead" after a stop or a failure
Alive(w) == workers[w].pc \notin {"unborn", "dead", "finished"}

\* job_manager.py:83-103 JobManager.__init__, duet_client.py:39-52,
\* machine_control.py:40-46.  auto_connect may or may not have succeeded.
Init ==
    /\ jobs = [j \in JobIds |-> NewJob]
    /\ registry = JobIds
    /\ current_job = None
    /\ job_thread = None
    /\ stop_event = FALSE
    /\ workers = [w \in Workers |-> Unborn]
    /\ api = Idle
    /\ connected \in BOOLEAN
    /\ cc = [t \in Threads |-> NoCall]
    /\ is_homed = FALSE
    /\ brush_state = [b \in Brushes |-> [air |-> FALSE, paint |-> FALSE]]
    /\ position = [a \in Axes |-> 0]
    /\ mc = McIdle
    /\ sent = [w \in Workers |-> <<>>]
    /\ serial = NoPort
    /\ read_threads = [r \in Readers |-> "unborn"]
    /\ sapi = SIdle
    /\ last_gcode = Nobody

Return(op, j, res) == [Idle EXCEPT !.op = op, !.job = j, !.result = res]

\* ======================================================================
\* DuetClient
\* ======================================================================

\* duet_client.py:54-116 connect(): "ok" is error code 0 followed by a
\* successful status probe; the other outcomes are a non-zero error code, a
\* failed probe and a network error.  The return value is the new flag.
ConnectOutcomes == {"ok", "err1", "probefail", "neterr"}
ConnectResult(o) == o = "ok"

\* entering send_command(cmd) on thread t
BeginSend(cmd) == [NoCall EXCEPT !.pc = "check", !.cmd = cmd]

\* duet_client.py:321  if not self.connected
SendCommandCheck(t) ==
    /\ cc[t].pc = "check"
    /\ cc' = [cc EXCEPT ![t].pc = IF connected THEN "submit" ELSE "connect",
                        ![t].wasConn = connected]
    /\ UNCHANGED <<svVars, last_gcode, jmVars, mcVars, workers, api, connected, sent>>

\* (a send_command that goes on to submit after a failed connect())
AfterFailedConnectSubmit == "submit"

\* after a failed connect(): duet_client.py:323-324 returns the error
AfterFailedConnect == "done"

\* duet_client.py:323-324  if not self.connect(): return error
SendCommandConnect(t) ==
    /\ cc[t].pc = "connect"
    /\ \E o \in ConnectOutcomes :
        /\ connected' = ConnectResult(o)
        /\ cc' = [cc EXCEPT ![t].connects = @ + 1,
                            ![t].conn = IF ConnectResult(o) THEN "ok" ELSE "failed",
                            ![t].pc = IF ConnectResult(o) THEN "submit"
                                      ELSE AfterFailedConnect,
                            ![t].result = IF ConnectResult(o) THEN @ ELSE "error"]
    /\ UNCHANGED <<svVars, last_gcode, jmVars, mcVars, workers, api, sent>>

\* a request of thread t has reached the device: every other send_command
\* call that is between its submit and its fetch has been crossed
Cross(c, t) ==
    [u \in Threads |-> IF t \in Threads /\ u # t /\ c[u].pc = "reply"
                       THEN [c[u] EXCEPT !.crossed = TRUE] ELSE c[u]]

\* duet_client.py:232, 346  the reply the device holds is read only by a
\* GET rr_reply, which a thread issues after its own submit: with no fetch
\* outstanding the holder is not observable and is recorded as Nobody
Held(v, c, ws) ==
    IF (\E t \in Threads : c[t].pc = "reply") \/ (\E w \in Workers : ws[w].pc = "reply")
    THEN v ELSE Nobody

\* (a device that keeps the replies apart, one channel for each caller)
ReplyFetchedOwn(t) == t

\* duet_client.py:232, 346-349  GET rr_reply names no command: the device
\* hands out the reply it holds, that of the command it accepted last
ReplyFetched(t) == last_gcode

\* duet_client.py:335-339  GET rr_gcode (phase 1, submit); no lock is held
SendCommandSubmit(t) ==
    /\ cc[t].pc = "submit"
    /\ \E o \in Outcomes :
        /\ cc' = [Cross(cc, IF o = "ok" THEN t ELSE Nobody) EXCEPT
                            ![t].submits = @ + 1,
                            ![t].pc = IF o = "ok" THEN "reply" ELSE "done",
                            ![t].result = IF o = "ok" THEN @ ELSE "error"]
        /\ last_gcode' = Held(IF o = "ok" THEN t ELSE last_gcode, cc', workers)
    /\ UNCHANGED <<svVars, jmVars, mcVars, workers, api, connected, sent>>

\* duet_client.py:345-356  GET rr_reply (phase 2, fetch the reply)
SendCommandReply(t) ==
    /\ cc[t].pc = "reply"
    /\ \E o \in Outcomes :
        /\ cc' = [Cross(cc, IF o = "ok" THEN t ELSE Nobody) EXCEPT
                         ![t].replies = @ + 1,
                         ![t].pc = "done",
                         ![t].got = IF o = "ok" THEN ReplyFetched(t) ELSE Nobody,
                         ![t].result = IF o = "ok" THEN "success" ELSE "error"]
        /\ last_gcode' = Held(IF o = "ok" THEN Nobody ELSE last_gcode, cc', workers)
    /\ UNCHANGED <<svVars, jmVars, mcVars, workers, api, connected, sent>>

\* What the device can answer to GET rr_connect: a JSON object with error
\* code 0 or with a non-zero error code, JSON that is not an object, text
\* that is not JSON and does or does not contain "err", an HTTP error status,
\* or nothing (timeout, refused).  What the status probe can do.
Replies == {"err0", "err1", "scalar", "texterr", "text", "httperr", "neterr"}
Probes == {"ok", "fail"}

\* duet_client.py:68-74  the connect request; 97-104 the status probe, made
\* after a reply that neither branch of 77-95 returned on
ReplyPasses(r) == r \in {"err0", "text"}
ConnectRequests(r) == IF ReplyPasses(r) THEN <<"rr_connect", "rr_status">>
                      ELSE <<"rr_connect">>

\* duet_client.py:61-116  what connect() does for a reply r and a probe
\* outcome p: "true", "false", or "raised" when response_json.get fails on
\* JSON that is not an object (only RequestException and ValueError are
\* caught)
ConnectReturns(r, p) ==
    CASE r \in {"neterr", "httperr"} -> "false"
      [] r \in {"err1", "texterr"} -> "false"
      [] r = "scalar" -> "raised"
      [] OTHER -> IF p = "ok" THEN "true" ELSE "false"

\* a call of a client operation by the control thread, with its record
DcCall(op, r, p, reqs, res) ==
    [McIdle EXCEPT !.op = op, !.wasConn = connected, !.reply = r, !.probe = p,
                   !.reqs = reqs, !.result = res]

\* duet_client.py:54-116 connect(): the flag is written on every path that
\* returns
Connect ==
    /\ mc.pc = "idle"
    /\ \E r \in Replies, p \in Probes :
        /\ connected' = CASE ConnectReturns(r, p) = "true" -> TRUE
                           [] ConnectReturns(r, p) = "false" -> FALSE
                           [] OTHER -> connected
        /\ mc' = DcCall("connect", r, p, ConnectRequests(r), ConnectReturns(r, p))
    /\ UNCHANGED <<svVars, last_gcode, jmVars, position, is_homed, brush_state, workers, api, cc, sent>>

\* duet_client.py:118-177 test_connection() on a throwaway session: after a
\* JSON object with error code 0 the probe is made and its failure is
\* reported as success all the same (157-159); text that is not JSON and has
\* no "err" is a success without a probe (166-167)
TestRequests(r) == IF r = "err0" THEN <<"rr_connect", "rr_status">>
                   ELSE <<"rr_connect">>
TestReturns(r, p) ==
    CASE r \in {"neterr", "httperr"} -> "false"
      [] r \in {"err1", "texterr"} -> "false"
      [] r = "scalar" -> "raised"
      [] OTHER -> "true"

\* test_connection() reads and writes nothing of the client's state
TestConnection ==
    /\ mc.pc = "idle"
    /\ \E r \in Replies, p \in Probes :
        mc' = DcCall("test_connection", r, p, TestRequests(r), TestReturns(r, p))
    /\ UNCHANGED <<svVars, last_gcode, jmVars, position, is_homed, brush_state, workers, api,
                   connected, cc, sent>>

\* duet_client.py:186-197 is_connected(): False at once when the flag is
\* false; otherwise a status probe, whose failure of any kind clears the flag
IsConnectedRequests == IF connected THEN <<"rr_status">> ELSE <<>>
IsConnectedReturns(p) == IF connected /\ p = "ok" THEN "true" ELSE "false"

IsConnected ==
    /\ mc.pc = "idle"
    /\ \E p \in Probes :
        /\ connected' = (connected /\ p = "ok")
        /\ mc' = DcCall("is_connected", "none", p, IsConnectedRequests,
                        IsConnectedReturns(p))
    /\ UNCHANGED <<svVars, last_gcode, jmVars, position, is_homed, brush_state, workers, api, cc, sent>>

\* (a disconnect that keeps the flag when the notify request failed)
DisconnectFlagIfNotified(o) == o # "ok"

\* duet_client.py:212  self.connected = False, whatever the notify did
DisconnectFlag(o) == FALSE

\* duet_client.py:199-213 disconnect(): if connected, a best-effort notify
\* whose RequestException is caught; then the flag is cleared.  Returns None.
Disconnect ==
    /\ mc.pc = "idle"
    /\ \E o \in Outcomes :
        /\ connected' = DisconnectFlag(o)
        /\ mc' = DcCall("disconnect", IF connected THEN o ELSE "none", "none",
                        IF connected THEN <<"rr_disconnect">> ELSE <<>>, "none")
    /\ UNCHANGED <<svVars, last_gcode, jmVars, position, is_homed, brush_state, workers, api, cc, sent>>

\* A reply to M114, split on whitespace: each part is an axis-letter:value
\* token or a bare word.  The reply 'X:x Y:y Z:z Count X:a Y:b Z:c':
Tok(axis, val) == [axis |-> axis, val |-> val]
M114Reply(x, y, z, a, b, c) ==
    <<Tok("X", x), Tok("Y", y), Tok("Z", z), Tok("Count", Unset),
      Tok("X", a), Tok("Y", b), Tok("Z", c)>>

Lower(axis) == CASE axis = "X" -> "x" [] axis = "Y" -> "y" [] OTHER -> "z"

\* duet_client.py:284-287  for part in parts: every part that starts with
\* X:, Y: or Z: is stored under its axis, a later one replacing an earlier
RECURSIVE ParseParts(_, _)
ParseParts(parts, pos) ==
    IF parts = <<>> THEN pos
    ELSE ParseParts(Tail(parts),
                    IF Head(parts).axis \in {"X", "Y", "Z"}
                    THEN [pos EXCEPT ![Lower(Head(parts).axis)] = Head(parts).val]
                    ELSE pos)

\* duet_client.py:274-299 _process_position_response
ProcessPositionResponse(parts) == ParseParts(parts, NoPosition)

\* duet_client.py:219-220, 244-272  send_gcode("M114") goes to
\* _handle_special_command: submit, fetch the reply, parse it
HandleSpecialCommand ==
    /\ mc.pc = "idle"
    /\ \E o1 \in Outcomes, o2 \in Outcomes, x \in Coords, y \in Coords, z \in Coords,
          a \in Coords, b \in Coords, c \in Coords :
        mc' = [McIdle EXCEPT
                 !.op = "M114",
                 !.reqs = IF o1 = "ok" THEN <<"rr_gcode", "rr_reply">>
                          ELSE <<"rr_gcode">>,
                 !.parts = IF o1 = "ok" /\ o2 = "ok"
                           THEN M114Reply(x, y, z, a, b, c) ELSE <<>>,
                 !.parsed = IF o1 = "ok" /\ o2 = "ok"
                            THEN ProcessPositionResponse(M114Reply(x, y, z, a, b, c))
                            ELSE NoPosition,
                 !.result = IF o1 = "ok" /\ o2 = "ok" THEN "success" ELSE "error"]
    /\ UNCHANGED <<svVars, last_gcode, jmVars, position, is_homed, brush_state, workers, api,
                   connected, cc, sent>>

\* ======================================================================
\* MachineControl, called one operation at a time by the control thread
\* ======================================================================
SomethingOn ==
    is_homed \/ \E b \in Brushes : brush_state[b].air \/ brush_state[b].paint

\* machine_control.py:80, 207, 237, 388  the command an operation sends
CommandOf(op) == CASE op = "home" -> "G28"
                   [] op = "emergency_stop" -> "M112"
                   [] OTHER -> "brush"

\* entering an operation that begins with a send of its command
McCall(op, b, flag, on) ==
    /\ mc.pc = "idle"
    /\ mc' = [McIdle EXCEPT !.pc = "cmd", !.op = op, !.brush = b, !.flag = flag,
                            !.on = on, !.pre = SomethingOn]
    /\ cc' = [cc EXCEPT ![Caller] = BeginSend(CommandOf(op))]
    /\ UNCHANGED <<svVars, last_gcode, jmVars, position, is_homed, brush_state, workers, api, connected, sent>>

\* machine_control.py:80  home(): send_command_and_wait("G28")
Home == McCall("home", "none", "none", FALSE)

\* machine_control.py:200-208, 230-238  set_brush_air / set_brush_paint:
\* send_command_and_wait(the configured on or off command)
SetBrush == \E b \in Brushes, flag \in {"air", "paint"}, on \in BOOLEAN :
                McCall("set_brush", b, flag, on)

\* machine_control.py:388  emergency_stop(): send_command("M112")
EmergencyStop == McCall("emergency_stop", "none", "none", FALSE)

\* the motion routines, each a sequence of moves and brush switches
ScriptOps == {"jog", "move_to", "park", "clean_brush"}

\* a completed send_command call of thread t: the command and its result
Logged(t) == [cmd |-> cc[t].cmd, res |-> cc[t].result]

\* the operations that send through send_command_and_wait
Waits(op) == op \in {"home", "set_brush"} \cup ScriptOps

\* (a send_command_and_wait that sends the barrier whatever the command did)
NeedsBarrierAlways(res) == TRUE

\* duet_client.py:370-371  if result["status"] == "error": return result
NeedsBarrier(res) == res # "error"

\* duet_client.py:369-374 send_command_and_wait: an error of the command is
\* returned, a success is followed by the barrier; machine_control.py:388
\* takes the result of send_command as it is
McCmdDone ==
    /\ mc.pc = "cmd"
    /\ cc[Caller].pc = "done"
    /\ IF Waits(mc.op) /\ NeedsBarrier(cc[Caller].result)
       THEN /\ cc' = [cc EXCEPT ![Caller] = BeginSend("M400")]
            /\ mc' = [mc EXCEPT !.pc = "wait", !.cmdres = cc[Caller].result,
                                !.log = Append(@, Logged(Caller))]
       ELSE /\ cc' = [cc EXCEPT ![Caller] = NoCall]
            /\ mc' = [mc EXCEPT !.pc = "finish", !.cmdres = cc[Caller].result,
                                !.sendres = cc[Caller].result,
                                !.log = Append(@, Logged(Caller))]
    /\ UNCHANGED <<svVars, last_gcode, jmVars, position, is_homed, brush_state, workers, api, connected, sent>>

\* duet_client.py:374, 383  the barrier's result is the result
McWaitDone ==
    /\ mc.pc = "wait"
    /\ cc[Caller].pc = "done"
    /\ cc' = [cc EXCEPT ![Caller] = NoCall]
    /\ mc' = [mc EXCEPT !.pc = "finish", !.barres = cc[Caller].result,
                        !.sendres = cc[Caller].result,
                        !.log = Append(@, Logged(Caller))]
    /\ UNCHANGED <<svVars, last_gcode, jmVars, position, is_homed, brush_state, workers, api, connected, sent>>

McReturn(res) == [McIdle EXCEPT !.op = mc.op, !.pre = mc.pre,
                                !.cmdres = mc.cmdres, !.barres = mc.barres,
                                !.sendres = mc.sendres, !.log = mc.log,
                                !.result = res]

\* machine_control.py:82-88  homed only on success
HomeFinish ==
    /\ mc.pc = "finish" /\ mc.op = "home"
    /\ is_homed' = IF mc.sendres = "success" THEN TRUE ELSE is_homed
    /\ mc' = McReturn(mc.sendres)
    /\ UNCHANGED <<svVars, last_gcode, jmVars, position, brush_state, workers, api, connected, cc, sent>>

\* machine_control.py:210-217, 240-247  the flag is updated only on success
SetBrushFinish ==
    /\ mc.pc = "finish" /\ mc.op = "set_brush"
    /\ brush_state' = IF mc.sendres = "success"
                      THEN [brush_state EXCEPT ![mc.brush][mc.flag] = mc.on]
                      ELSE brush_state
    /\ mc' = McReturn(mc.sendres)
    /\ UNCHANGED <<svVars, last_gcode, jmVars, position, is_homed, workers, api, connected, cc, sent>>

\* ----------------------------------------------------------------------
\* set_brush_paint_flow
\* ----------------------------------------------------------------------
\* percentages a caller may pass, and the configured servo limits of a brush
\* (Scenario D's 10 and 170, in both orders)
Percentages == {-10, 0, 1, 25, 50, 99, 100, 150}
PaintLimits == {<<10, 170>>, <<170, 10>>, <<0, 3>>}

\* machine_control.py:264  max(0, min(100, percentage))
Clamp(pct) == IF pct < 0 THEN 0 ELSE IF pct > 100 THEN 100 ELSE pct

\* Python's round(): to the nearest integer, a tie to the even one; n / d for
\* n >= 0, d > 0
RoundHalfEven(n, d) ==
    LET q == n \div d
        r == n % d
    IN  IF 2 * r < d THEN q
        ELSE IF 2 * r > d THEN q + 1
        ELSE IF q % 2 = 0 THEN q ELSE q + 1

\* machine_control.py:271-278  paint_min + pct/100 * (paint_max - paint_min);
\* the reversed branch paint_min - pct/100 * (paint_min - paint_max) is the
\* same number; then round()
ServoAngle(pct, lim) ==
    RoundHalfEven(100 * lim[1] + Clamp(pct) * (lim[2] - lim[1]), 100)

\* machine_control.py:38, config.py:13-110  self.config is the Config object,
\* which has get, set and save but no __getitem__: the subscript
\* self.config["brushes"] of machine_control.py:267 raises TypeError
ConfigSubscriptable == FALSE

\* machine_control.py:249-299 set_brush_paint_flow(brush, percentage) for a
\* valid brush: the limits are read before anything is sent
SetBrushPaintFlow ==
    /\ mc.pc = "idle"
    /\ ~ConfigSubscriptable
    /\ \E b \in Brushes, pct \in Percentages :
        mc' = [McIdle EXCEPT !.op = "set_brush_paint_flow", !.brush = b,
                             !.pct = pct, !.pre = SomethingOn, !.result = "raised"]
    /\ UNCHANGED <<svVars, last_gcode, jmVars, position, is_homed, brush_state, workers, api,
                   connected, cc, sent>>

\* ----------------------------------------------------------------------
\* jog, move_to, park, clean_brush
\* ----------------------------------------------------------------------
\* a move_to call: its G1 command and the coordinate given for each axis
\* (Unset for an argument left None)
Target(cmd, x, y, z) ==
    [cmd |-> cmd,
     to |-> [a \in Axes |-> CASE a = "X" -> x [] a = "Y" -> y [] OTHER -> z]]

\* machine_control.py:312, 339, 364  move_to(z=10, speed=500)
ZSafe == Target("G1 Z10 F500", Unset, Unset, 10)
\* machine_control.py:317  move_to(x=0, y=0, speed=3000)
ParkXY == Target("G1 X0 Y0 F3000", 0, 0, Unset)
\* machine_control.py:344  move_to(x=250, y=250, speed=3000)
CleanXY == Target("G1 X250 Y250 F3000", 250, 250, Unset)
\* machine_control.py:349  move_to(z=5, speed=500)
ZClean == Target("G1 Z5 F500", Unset, Unset, 5)

\* the move_to calls a caller makes
MoveTargets == {ZSafe, ParkXY, CleanXY, ZClean,
                Target("G1 X250 Y0 Z0 F1000", 250, 0, 0)}

\* the jog calls a caller makes; E is not an axis
JogInputs == {[axis |-> "X", distance |-> 250, cmd |-> "G1 X250 F1000"],
              [axis |-> "Z", distance |-> 5, cmd |-> "G1 Z5 F1000"],
              [axis |-> "E", distance |-> 5, cmd |-> "G1 E5 F1000"]}

\* the largest coordinate of an axis
Limit(a) == IF a = "Z" THEN 10 ELSE 250

\* the steps of a routine: a move_to, a jog, or a set_brush_air
MoveStep(t) == [kind |-> "move", cmd |-> t.cmd, to |-> t.to, axis |-> "none",
                distance |-> 0, brush |-> "none", on |-> FALSE]
JogStep(j) == [kind |-> "jog", cmd |-> j.cmd, to |-> [a \in Axes |-> Unset],
               axis |-> j.axis, distance |-> j.distance, brush |-> "none",
               on |-> FALSE]
AirStep(b, on) == [kind |-> "air", cmd |-> "brush", to |-> [a \in Axes |-> Unset],
                   axis |-> "none", distance |-> 0, brush |-> b, on |-> on]

\* (a park that moves to the origin before it raises Z)
ParkScriptXYFirst == <<MoveStep(ParkXY), MoveStep(ZSafe)>>

\* machine_control.py:311-317  park(): raise Z, then move to the origin
ParkScript == <<MoveStep(ZSafe), MoveStep(ParkXY)>>

\* machine_control.py:338-371  clean_brush(brush)
CleanScript(b) == <<MoveStep(ZSafe), MoveStep(CleanXY), MoveStep(ZClean),
                    AirStep(b, TRUE), AirStep(b, FALSE), MoveStep(ZSafe)>>

\* (a jog that is let through before homing)
NeedsHomingNotJog(op) == op \in {"move_to", "park", "clean_brush"}

\* machine_control.py:107, 147, 308, 341  if not self.is_homed: return error
NeedsHoming(op) == op \in {"jog", "move_to", "park", "clean_brush"}

\* an operation that returns an error before it calls the client
Refuse(op, b) ==
    /\ mc' = [McIdle EXCEPT !.op = op, !.brush = b, !.pre = SomethingOn,
                            !.result = "error"]
    /\ UNCHANGED cc

\* entering a routine: the homed check, then the first step's
\* send_command_and_wait
ScriptCall(op, b, script) ==
    /\ mc.pc = "idle"
    /\ IF NeedsHoming(op) /\ ~is_homed
       THEN Refuse(op, b)
       ELSE /\ mc' = [McIdle EXCEPT !.pc = "cmd", !.op = op, !.brush = b,
                                    !.pre = SomethingOn, !.script = script,
                                    !.step = 1]
            /\ cc' = [cc EXCEPT ![Caller] = BeginSend(script[1].cmd)]
    /\ UNCHANGED <<svVars, last_gcode, jmVars, position, is_homed, brush_state, workers, api, connected,
                   sent>>

\* machine_control.py:90-130 jog(axis, distance): the axis is checked first
Jog ==
    \E j \in JogInputs :
        IF j.axis \notin Axes
        THEN /\ mc.pc = "idle"
             /\ Refuse("jog", "none")
             /\ UNCHANGED <<svVars, last_gcode, jmVars, position, is_homed, brush_state, workers, api,
                            connected, sent>>
        ELSE /\ position[j.axis] + j.distance <= Limit(j.axis)
             /\ ScriptCall("jog", "none", <<JogStep(j)>>)

\* machine_control.py:132-187 move_to(x, y, z, speed)
MoveTo == \E t \in MoveTargets : ScriptCall("move_to", "none", <<MoveStep(t)>>)

\* machine_control.py:301-325 park()
Park == ScriptCall("park", "none", ParkScript)

\* machine_control.py:327-378 clean_brush(brush)
CleanBrush == \E b \in Brushes : ScriptCall("clean_brush", b, CleanScript(b))

\* machine_control.py:122, 176-183  the position when get_position() fails:
\* a jog adds the distance, a move_to takes the coordinates it was given
Estimate(pos, st) ==
    CASE st.kind = "jog" -> [pos EXCEPT ![st.axis] = @ + st.distance]
      [] st.kind = "move" ->
            [a \in Axes |-> IF st.to[a] # Unset THEN st.to[a] ELSE pos[a]]
      [] OTHER -> pos

\* duet_client.py:385-416 get_position(): an error, or the coordinates the
\* device reports (where the move was to end, or somewhere else: the origin)
PositionReports == {"error", "there", "origin"}
PositionAfter(pos, st, g) ==
    IF g = "origin" THEN [a \in Axes |-> 0] ELSE Estimate(pos, st)

\* machine_control.py:313-314, 340-374  if result["status"] == "error": return
StepAborts(res) == res # "success"

\* a step has returned: machine_control.py:116-122, 165-183 a move updates
\* the cached position on success; 210-212 set_brush_air sets the flag on
\* success; an error ends the routine with that error, a success goes on to
\* the next step or, after the last, returns
StepFinish ==
    /\ mc.pc = "finish" /\ mc.op \in ScriptOps
    /\ LET st == mc.script[mc.step]
           ok == mc.sendres = "success"
       IN  /\ IF ok /\ st.kind \in {"move", "jog"}
              THEN \E g \in PositionReports :
                       position' = PositionAfter(position, st, g)
              ELSE position' = position
           /\ brush_state' = IF ok /\ st.kind = "air"
                             THEN [brush_state EXCEPT ![st.brush].air = st.on]
                             ELSE brush_state
           /\ IF ~StepAborts(mc.sendres) /\ mc.step < Len(mc.script)
              THEN /\ mc' = [mc EXCEPT !.pc = "cmd", !.step = @ + 1,
                                       !.cmdres = "none", !.barres = "none",
                                       !.sendres = "none"]
                   /\ cc' = [cc EXCEPT ![Caller] =
                                 BeginSend(mc.script[mc.step + 1].cmd)]
              ELSE /\ mc' = McReturn(mc.sendres)
                   /\ cc' = cc
    /\ UNCHANGED <<svVars, last_gcode, jmVars, is_homed, workers, api, connected, sent>>

\* ----------------------------------------------------------------------
\* process_gcode_file
\* ----------------------------------------------------------------------
\* machine_control.py:500-505  line.split(';')[0].strip(); an empty command
\* is counted and skipped
FileSkips(line) == line = "" \/ line = ";"

\* machine_control.py:513, 519  f"Error at line {processed_lines}: ..."
ErrorLine(processed, i) == processed

\* machine_control.py:489-494  read the file, processed_lines = 0
ProcessGcodeFile ==
    /\ mc.pc = "idle"
    /\ \E j \in JobIds :
        mc' = [McIdle EXCEPT !.pc = "file_line", !.op = "process_gcode_file",
                             !.file = j, !.step = 1]
    /\ UNCHANGED <<svVars, last_gcode, jmVars, position, is_homed, brush_state, workers, api, connected,
                   cc, sent>>

\* machine_control.py:498-517  one iteration up to the send: M400 goes to
\* wait_for_motion_complete(), which is send_command("M400"), any other
\* command to send_command; 528-529 after the last line, a final barrier
FileLine ==
    /\ mc.pc = "file_line"
    /\ IF mc.step > Len(File(mc.file))
       THEN /\ mc' = [mc EXCEPT !.pc = "file_end"]
            /\ cc' = [cc EXCEPT ![Caller] = BeginSend("M400")]
       ELSE IF FileSkips(File(mc.file)[mc.step])
       THEN /\ mc' = [mc EXCEPT !.processed = @ + 1, !.step = @ + 1]
            /\ cc' = cc
       ELSE /\ mc' = [mc EXCEPT !.pc = "file_cmd"]
            /\ cc' = [cc EXCEPT ![Caller] = BeginSend(File(mc.file)[mc.step])]
    /\ UNCHANGED <<svVars, last_gcode, jmVars, position, is_homed, brush_state, workers, api, connected,
                   sent>>

\* machine_control.py:511-521  a result that is not success ends the call
\* with the error message; otherwise processed_lines += 1
FileSent ==
    /\ mc.pc = "file_cmd"
    /\ cc[Caller].pc = "done"
    /\ cc' = [cc EXCEPT ![Caller] = NoCall]
    /\ mc' = IF cc[Caller].result # "success"
             THEN [McIdle EXCEPT !.op = mc.op, !.file = mc.file, !.step = mc.step,
                                 !.processed = mc.processed,
                                 !.log = Append(mc.log, Logged(Caller)),
                                 !.errline = ErrorLine(mc.processed, mc.step),
                                 !.result = "error"]
             ELSE [mc EXCEPT !.pc = "file_line", !.processed = @ + 1,
                             !.step = @ + 1,
                             !.log = Append(@, Logged(Caller))]
    /\ UNCHANGED <<svVars, last_gcode, jmVars, position, is_homed, brush_state, workers, api, connected,
                   sent>>

\* machine_control.py:529-532  the result of the final barrier is not looked
\* at: success
FileEnd ==
    /\ mc.pc = "file_end"
    /\ cc[Caller].pc = "done"
    /\ cc' = [cc EXCEPT ![Caller] = NoCall]
    /\ mc' = [McIdle EXCEPT !.op = mc.op, !.file = mc.file, !.step = mc.step,
                            !.processed = mc.processed,
                            !.log = Append(mc.log, Logged(Caller)),
                            !.result = "success"]
    /\ UNCHANGED <<svVars, last_gcode, jmVars, position, is_homed, brush_state, workers, api, connected,
                   sent>>

\* (an emergency stop that resets only when the device acknowledged)
EStopHomedIfAcked(res) == IF res = "success" THEN FALSE ELSE is_homed

\* machine_control.py:391  self.is_homed = False, whatever the send returned
EStopHomed(res) == FALSE

\* machine_control.py:394-396  every brush: air and paint off
EStopBrushes(res) == [b \in Brushes |-> [air |-> FALSE, paint |-> FALSE]]

\* machine_control.py:390-399  reset the local state, return success
EmergencyStopFinish ==
    /\ mc.pc = "finish" /\ mc.op = "emergency_stop"
    /\ is_homed' = EStopHomed(mc.sendres)
    /\ brush_state' = EStopBrushes(mc.sendres)
    /\ mc' = McReturn("success")
    /\ UNCHANGED <<svVars, last_gcode, jmVars, position, workers, api, connected, cc, sent>>

\* ======================================================================
\* JobManager._run_job, one worker thread w
\* ======================================================================
WJob(w) == workers[w].job
WLine(w) == File(WJob(w))[workers[w].i]

\* job_manager.py:383-384  open the file, read the lines
RunOpen(w) ==
    /\ workers[w].pc = "open"
    /\ workers' = [workers EXCEPT ![w].pc = "stopchk", ![w].i = 1]
    /\ UNCHANGED <<svVars, last_gcode, jmVars, mcVars, api, connected, cc, sent>>

\* job_manager.py:387-391  next iteration of the for loop; stop_event test
RunCheckStop(w) ==
    /\ workers[w].pc = "stopchk"
    /\ workers' = [workers EXCEPT ![w] =
          IF workers[w].i > Len(File(WJob(w))) THEN [@ EXCEPT !.pc = "c_status"]
          ELSE IF stop_event THEN [@ EXCEPT !.pc = "dead", !.i = 0, !.res = "none"]
          ELSE [@ EXCEPT !.pc = "pausechk"]]
    /\ UNCHANGED <<svVars, last_gcode, jmVars, mcVars, api, connected, cc, sent>>

\* (a pause loop that waits for resume_job only)
PauseWaitsForResume(w) == jobs[WJob(w)].status = "paused"

\* job_manager.py:394  the condition of the pause loop
PauseWaits(w) == jobs[WJob(w)].status = "paused" /\ ~stop_event

\* job_manager.py:394-400  pause loop, then strip and skip blank/comment
RunCheckPause(w) ==
    /\ workers[w].pc = "pausechk"
    /\ workers' = [workers EXCEPT ![w] =
          IF PauseWaits(w) THEN @
          ELSE IF IsSkipped(WLine(w)) THEN [@ EXCEPT !.pc = "stopchk", !.i = @ + 1]
          ELSE [@ EXCEPT !.pc = "send"]]
    /\ UNCHANGED <<svVars, last_gcode, jmVars, mcVars, api, connected, cc, sent>>

\* where the loop goes once send_gcode has returned (job_manager.py:404-409);
\* the result of send_gcode is only logged
AfterSend(w, res) == IF IsBarrier(WLine(w)) THEN "barrier" ELSE "line"

\* job_manager.py:404 -> duet_client.py:215-228, 244-251  send_gcode puts the
\* line on the wire (GET rr_gcode), whatever the connected flag says
RunSend(w) ==
    /\ workers[w].pc = "send"
    /\ sent' = [sent EXCEPT ![w] = Append(@, workers[w].i)]
    /\ workers' = [workers EXCEPT ![w].pc = "submitted"]
    /\ UNCHANGED <<svVars, last_gcode, jmVars, mcVars, api, connected, cc>>

\* duet_client.py:228-232, 240-242  the submit returns: on success the reply
\* is requested (GET rr_reply); a RequestException becomes an error result;
\* any other exception reaches the handler at job_manager.py:411
RunSubmitted(w) ==
    /\ workers[w].pc = "submitted"
    /\ \E o \in Outcomes \cup {"raise"} :
        /\ workers' = [workers EXCEPT ![w].pc =
              CASE o = "ok" -> "reply"
                [] o = "neterr" -> AfterSend(w, "error")
                [] OTHER -> "fail",
                                      ![w].res =
              CASE o = "ok" -> "none"
                [] o = "neterr" -> "error"
                [] OTHER -> "raised"]
        /\ cc' = [Cross(cc, IF o = "ok" THEN w ELSE Nobody) EXCEPT ![w] =
              IF o = "neterr" /\ AfterSend(w, "error") = "barrier"
              THEN BeginSend("M400") ELSE @]
        /\ last_gcode' = Held(IF o = "ok" THEN w ELSE last_gcode, cc', workers')
    /\ UNCHANGED <<svVars, jmVars, mcVars, api, connected, sent>>

\* duet_client.py:232-242, 255-272  the reply fetch returns
RunReply(w) ==
    /\ workers[w].pc = "reply"
    /\ \E o \in Outcomes :
        LET res == IF o = "ok" THEN "success" ELSE "error" IN
        /\ workers' = [workers EXCEPT ![w].pc = AfterSend(w, res), ![w].res = res]
        /\ cc' = [Cross(cc, IF o = "ok" THEN w ELSE Nobody) EXCEPT ![w] =
              IF AfterSend(w, res) = "barrier" THEN BeginSend("M400") ELSE @]
        /\ last_gcode' = Held(IF o = "ok" THEN Nobody ELSE last_gcode, cc', workers')
    /\ UNCHANGED <<svVars, jmVars, mcVars, api, connected, sent>>

\* job_manager.py:408-409  wait_for_motion_complete() has returned
RunBarrierDone(w) ==
    /\ workers[w].pc = "barrier"
    /\ cc[w].pc = "done"
    /\ cc' = [cc EXCEPT ![w] = NoCall]
    /\ workers' = [workers EXCEPT ![w].pc = "line"]
    /\ UNCHANGED <<svVars, last_gcode, jmVars, mcVars, api, connected, sent>>

\* job_manager.py:411-420  the send raised: record line and message, fail
RunFail(w) ==
    /\ workers[w].pc = "fail"
    /\ jobs' = [jobs EXCEPT ![WJob(w)].error = workers[w].i,
                            ![WJob(w)].status = "failed",
                            ![WJob(w)].end_time = TRUE]
    /\ workers' = [workers EXCEPT ![w].pc = "dead", ![w].i = 0, ![w].res = "none"]
    /\ UNCHANGED <<svVars, last_gcode, current_job, job_thread, registry, stop_event, mcVars, api, connected,
                   cc, sent>>

\* job_manager.py:423  job.current_line = i + 1
RunLine(w) ==
    /\ workers[w].pc = "line"
    /\ jobs' = [jobs EXCEPT ![WJob(w)].current_line = workers[w].i]
    /\ workers' = [workers EXCEPT ![w].pc = "prog"]
    /\ UNCHANGED <<svVars, last_gcode, current_job, job_thread, registry, stop_event, mcVars, api, connected,
                   cc, sent>>

\* job_manager.py:424-431  job.progress = (i + 1) / len(lines) * 100
RunProgress(w) ==
    /\ workers[w].pc = "prog"
    /\ jobs' = [jobs EXCEPT ![WJob(w)].progress =
                   ProgressAt(workers[w].i - 1, Len(File(WJob(w))))]
    /\ workers' = [workers EXCEPT ![w].pc = "stopchk", ![w].i = @ + 1,
                                  ![w].res = "none"]
    /\ UNCHANGED <<svVars, last_gcode, current_job, job_thread, registry, stop_event, mcVars, api, connected,
                   cc, sent>>

\* job_manager.py:434  job.status = "completed"
RunCompleteStatus(w) ==
    /\ workers[w].pc = "c_status"
    /\ jobs' = [jobs EXCEPT ![WJob(w)].status = "completed"]
    /\ workers' = [workers EXCEPT ![w].pc = "c_rest"]
    /\ UNCHANGED <<svVars, last_gcode, current_job, job_thread, registry, stop_event, mcVars, api, connected,
                   cc, sent>>

\* job_manager.py:435-436  progress = 100.0, end_time
RunCompleteRest(w) ==
    /\ workers[w].pc = "c_rest"
    /\ jobs' = [jobs EXCEPT ![WJob(w)].progress = ProgressFull,
                            ![WJob(w)].end_time = TRUE]
    /\ workers' = [workers EXCEPT ![w].pc = "c_slot"]
    /\ UNCHANGED <<svVars, last_gcode, current_job, job_thread, registry, stop_event, mcVars, api, connected,
                   cc, sent>>

\* job_manager.py:444  self.current_job = None, and the thread ends
RunCompleteSlot(w) ==
    /\ workers[w].pc = "c_slot"
    /\ current_job' = None
    /\ workers' = [workers EXCEPT ![w].pc = "finished", ![w].i = 0, ![w].res = "none"]
    /\ UNCHANGED <<svVars, last_gcode, jobs, job_thread, registry, stop_event, mcVars, api, connected,
                   cc, sent>>

RunJob(w) ==
    \/ RunOpen(w) \/ RunCheckStop(w) \/ RunCheckPause(w)
    \/ RunSend(w) \/ RunSubmitted(w) \/ RunReply(w)
    \/ RunBarrierDone(w) \/ RunFail(w)
    \/ RunLine(w) \/ RunProgress(w)
    \/ RunCompleteStatus(w) \/ RunCompleteRest(w) \/ RunCompleteSlot(w)

\* ======================================================================
\* JobManager public operations, called one at a time by the api thread
\* ======================================================================

\* job_manager.py:244-249  an unknown job id, or if self.current_job: reject
StartRejected(j) == j \notin registry \/ current_job # None

\* job_manager.py:264  self.stop_event.clear()
StartStopEvent == FALSE

\* job_manager.py:244-275 start_job(job_id): the guard, the reset of the job,
\* the slot, the stop event and the new worker thread
StartJob(j) ==
    /\ api.pc = "idle"
    /\ IF StartRejected(j)
       THEN /\ api' = Return("start", j, "error")
            /\ UNCHANGED <<svVars, last_gcode, jmVars, workers, sent>>
       ELSE \E w \in Workers :
            /\ workers[w].pc = "unborn"
            /\ \A v \in Workers : workers[v].pc = "unborn" => w <= v
            /\ jobs' = [jobs EXCEPT ![j] = [NewJob EXCEPT !.status = "running",
                                                          !.start_time = TRUE]]
            /\ current_job' = j
            /\ stop_event' = StartStopEvent
            /\ job_thread' = w
            /\ workers' = [workers EXCEPT ![w] = [Unborn EXCEPT !.pc = "open", !.job = j]]
            /\ UNCHANGED <<svVars, last_gcode, registry, sent>>
            /\ api' = Return("start", j, "success")
    /\ UNCHANGED <<svVars, last_gcode, mcVars, connected, cc>>

\* job_manager.py:294-295 pause_job(): no current job is an error
PauseCheck ==
    /\ api.pc = "idle"
    /\ api' = IF current_job = None THEN Return("pause", None, "error")
              ELSE [Idle EXCEPT !.pc = "p_store", !.op = "pause"]
    /\ UNCHANGED <<svVars, last_gcode, jmVars, mcVars, workers, connected, cc, sent>>

\* job_manager.py:299  self.current_job.status = "paused"; an AttributeError
\* on a slot emptied meanwhile is caught at line 307
PauseStore ==
    /\ api.pc = "p_store"
    /\ IF current_job = None
       THEN /\ api' = Return("pause", None, "error")
            /\ UNCHANGED jobs
       ELSE /\ jobs' = [jobs EXCEPT ![current_job].status = "paused"]
            /\ api' = [api EXCEPT !.pc = "p_ret", !.job = current_job,
                                  !.was = jobs[current_job].status]
    /\ UNCHANGED <<svVars, last_gcode, current_job, job_thread, registry, stop_event, mcVars, workers,
                   connected, cc, sent>>

\* job_manager.py:302-305  notify, log self.current_job.job_id, return
PauseReturn ==
    /\ api.pc = "p_ret"
    /\ IF current_job = None
       THEN api' = Return("pause", api.job, "error")
       ELSE api' = [Return("pause", api.job, "success")
                      EXCEPT !.was = api.was, !.line = jobs[api.job].current_line]
    /\ UNCHANGED <<svVars, last_gcode, jmVars, mcVars, workers, connected, cc, sent>>

\* what a pause_job that has just returned success left behind
JustPaused == api.op = "pause" /\ api.result = "success"

\* job_manager.py:318-319 resume_job(): no current job is an error
ResumeCheck ==
    /\ api.pc = "idle"
    /\ api' = IF current_job = None THEN Return("resume", None, "error")
              ELSE [Idle EXCEPT !.pc = "r_status", !.op = "resume",
                                !.was = IF JustPaused THEN api.was ELSE "none",
                                !.line = IF JustPaused THEN api.line ELSE -1]
    /\ UNCHANGED <<svVars, last_gcode, jmVars, mcVars, workers, connected, cc, sent>>

\* job_manager.py:321-322  status must be paused; this read is outside the
\* try block, so an emptied slot raises out of resume_job
ResumeStatus ==
    /\ api.pc = "r_status"
    /\ api' = IF current_job = None THEN Return("resume", None, "raise")
              ELSE IF jobs[current_job].status # "paused"
                   THEN Return("resume", current_job, "error")
                   ELSE [api EXCEPT !.pc = "r_store"]
    /\ UNCHANGED <<svVars, last_gcode, jmVars, mcVars, workers, connected, cc, sent>>

\* job_manager.py:326  self.current_job.status = "running"
ResumeStore ==
    /\ api.pc = "r_store"
    /\ IF current_job = None
       THEN /\ api' = Return("resume", None, "error")
            /\ UNCHANGED jobs
       ELSE /\ jobs' = [jobs EXCEPT ![current_job].status = "running"]
            /\ api' = [api EXCEPT !.pc = "r_ret", !.job = current_job]
    /\ UNCHANGED <<svVars, last_gcode, current_job, job_thread, registry, stop_event, mcVars, workers,
                   connected, cc, sent>>

\* job_manager.py:329-332  notify, log self.current_job.job_id, return
ResumeReturn ==
    /\ api.pc = "r_ret"
    /\ api' = [Return("resume", api.job,
                      IF current_job = None THEN "error" ELSE "success")
                 EXCEPT !.was = api.was, !.line = api.line]
    /\ UNCHANGED <<svVars, last_gcode, jmVars, mcVars, workers, connected, cc, sent>>

\* job_manager.py:345-350 stop_job(): no current job is an error; otherwise
\* raise the stop event
StopBegin ==
    /\ api.pc = "idle"
    /\ IF current_job = None
       THEN /\ api' = Return("stop", None, "error")
            /\ UNCHANGED <<svVars, last_gcode, stop_event>>
       ELSE /\ stop_event' = TRUE
            /\ api' = [Idle EXCEPT !.pc = "s_join", !.op = "stop", !.job = current_job,
                                   !.was = jobs[current_job].status]
    /\ UNCHANGED <<svVars, last_gcode, jobs, registry, current_job, job_thread, mcVars, workers,
                   connected, cc, sent>>

\* A worker inside a device request: send_gcode's requests carry no timeout
\* (duet_client.py:228, 232) and the barrier's two carry 5 s each (335, 345)
Blocked(w) == workers[w].pc \in {"submitted", "reply", "barrier"}

\* job_manager.py:353-354  join(timeout=5) returns once the worker has ended,
\* or after the timeout while the worker is held in a device request
StopJoin ==
    /\ api.pc = "s_join"
    /\ \/ job_thread = None
       \/ ~Alive(job_thread)
       \/ Blocked(job_thread)
    /\ api' = [api EXCEPT !.pc = "s_status"]
    /\ UNCHANGED <<svVars, last_gcode, jmVars, mcVars, workers, connected, cc, sent>>

\* job_manager.py:357  self.current_job.status = "stopped"
StopStatus ==
    /\ api.pc = "s_status"
    /\ IF current_job = None
       THEN /\ api' = Return("stop", api.job, "error")
            /\ UNCHANGED jobs
       ELSE /\ jobs' = [jobs EXCEPT ![current_job].status = "stopped"]
            /\ api' = [api EXCEPT !.pc = "s_end"]
    /\ UNCHANGED <<svVars, last_gcode, current_job, job_thread, registry, stop_event, mcVars, workers,
                   connected, cc, sent>>

\* job_manager.py:358  self.current_job.end_time = time.time()
StopEnd ==
    /\ api.pc = "s_end"
    /\ IF current_job = None
       THEN /\ api' = Return("stop", api.job, "error")
            /\ UNCHANGED jobs
       ELSE /\ jobs' = [jobs EXCEPT ![current_job].end_time = TRUE]
            /\ api' = [api EXCEPT !.pc = "s_ret"]
    /\ UNCHANGED <<svVars, last_gcode, current_job, job_thread, registry, stop_event, mcVars, workers,
                   connected, cc, sent>>

\* job_manager.py:361-368  notify, read job_id, empty the slot, return
StopReturn ==
    /\ api.pc = "s_ret"
    /\ IF current_job = None
       THEN /\ api' = Return("stop", api.job, "error")
            /\ UNCHANGED current_job
       ELSE /\ current_job' = None
            /\ api' = [Return("stop", api.job, "success") EXCEPT !.was = api.was]
    /\ UNCHANGED <<svVars, last_gcode, jobs, job_thread, registry, stop_event, mcVars, workers,
                   connected, cc, sent>>

\* (a delete_job that refuses paused jobs and lets running ones go)
DeleteRejectedPaused(j) == jobs[j].status = "paused"

\* job_manager.py:216-217  if job.status == "running": reject
DeleteRejected(j) == jobs[j].status = "running"

\* job_manager.py:212-232 delete_job(job_id): unknown id and running job are
\* errors; otherwise the file and the registry entry are removed, unless
\* os.remove raises, which is returned as an error
DeleteJob(j) ==
    /\ api.pc = "idle"
    /\ \/ /\ j \notin registry \/ DeleteRejected(j)
          /\ api' = Return("delete", j, "error")
          /\ UNCHANGED registry
       \/ /\ j \in registry /\ ~DeleteRejected(j)
          /\ \E o \in {"ok", "oserror"} :
                /\ registry' = IF o = "ok" THEN registry \ {j} ELSE registry
                /\ api' = Return("delete", j, IF o = "ok" THEN "success" ELSE "error")
    /\ UNCHANGED <<svVars, last_gcode, jobs, current_job, job_thread, stop_event, mcVars, workers,
                   connected, cc, sent>>

PauseJob == PauseCheck \/ PauseStore \/ PauseReturn
ResumeJob == ResumeCheck \/ ResumeStatus \/ ResumeStore \/ ResumeReturn
StopJob == StopBegin \/ StopJoin \/ StopStatus \/ StopEnd \/ StopReturn

SendCommand(t) ==
    \/ SendCommandCheck(t) \/ SendCommandConnect(t)
    \/ SendCommandSubmit(t) \/ SendCommandReply(t)

\* ======================================================================
\* SerialService: a caller thread and the background reader threads
\* ======================================================================
otherVars == <<jmVars, mcVars, workers, api, connected, cc, sent, last_gcode>>

SReturn(op, res, ip) == [SIdle EXCEPT !.op = op, !.result = res, !.ip = ip]

AliveReaders == {r \in Readers : read_threads[r] \notin {"unborn", "dead"}}

\* a reader inside readline() or the data callback does not see the stop
\* event before the call returns
ReaderBlocked(r) == read_threads[r] = "read"

\* serial_service.py:217-218  if self.read_thread and
\* self.read_thread.is_alive(): self.read_thread.join(timeout=1) returns when
\* the thread has ended, or after the timeout while it is still blocked
JoinReturns(r) == r = None \/ r \notin AliveReaders \/ ReaderBlocked(r)

\* serial_service.py:141-202 connect(): rejected while connected; opening
\* the port may fail; on success the flag is set, the stop event cleared and
\* a new reader thread started
SerialConnect ==
    /\ sapi.pc = "idle"
    /\ IF serial.is_connected
       THEN /\ sapi' = SReturn("connect", "error", None)
            /\ UNCHANGED <<serial, read_threads>>
       ELSE \/ /\ sapi' = SReturn("connect", "error", None)
               /\ UNCHANGED <<serial, read_threads>>
            \/ /\ serial.serial_port < MaxConnects
               /\ LET n == serial.serial_port + 1
                  IN  /\ serial' = [serial EXCEPT !.serial_port = n,
                                                  !.is_open = TRUE,
                                                  !.is_connected = TRUE,
                                                  !.stop_thread = FALSE,
                                                  !.read_thread = n]
                      /\ read_threads' = [read_threads EXCEPT ![n] = "loop"]
               /\ sapi' = SReturn("connect", "success", None)
    /\ UNCHANGED otherVars

\* serial_service.py:211-216  not connected is an error; else
\* self.stop_thread.set()
SerialDisconnectBegin ==
    /\ sapi.pc = "idle"
    /\ IF ~serial.is_connected
       THEN /\ sapi' = SReturn("disconnect", "error", None)
            /\ UNCHANGED serial
       ELSE /\ serial' = [serial EXCEPT !.stop_thread = TRUE]
            /\ sapi' = [SIdle EXCEPT !.pc = "join", !.op = "disconnect"]
    /\ UNCHANGED <<read_threads, otherVars>>

\* serial_service.py:217-218  the bounded join
SerialDisconnectJoin ==
    /\ sapi.pc = "join"
    /\ JoinReturns(serial.read_thread)
    /\ sapi' = [sapi EXCEPT !.pc = "close"]
    /\ UNCHANGED <<serial, read_threads, otherVars>>

\* serial_service.py:221-230  close the port, clear the flag, success
SerialDisconnectClose ==
    /\ sapi.pc = "close"
    /\ serial' = [serial EXCEPT !.is_open = FALSE, !.is_connected = FALSE]
    /\ sapi' = SReturn("disconnect", "success", None)
    /\ UNCHANGED <<read_threads, otherVars>>

SerialDisconnect ==
    SerialDisconnectBegin \/ SerialDisconnectJoin \/ SerialDisconnectClose

\* serial_service.py:264-342 get_ip_address(): M552 is written and the reply
\* searched for an address: a match is stored and returned; without a match
\* the address cached in last_found_ip, if any, is returned
GetIpAddress ==
    /\ sapi.pc = "idle"
    /\ IF ~serial.is_connected \/ serial.serial_port = None
       THEN /\ sapi' = SReturn("get_ip_address", "error", None)
            /\ UNCHANGED serial
       ELSE \E o \in {"senderr", "match", "nomatch"} :
            CASE o = "senderr" ->
                    /\ sapi' = SReturn("get_ip_address", "error", None)
                    /\ UNCHANGED serial
              [] o = "match" ->
                    /\ serial' = [serial EXCEPT !.last_found_ip = serial.serial_port]
                    /\ sapi' = SReturn("get_ip_address", "success",
                                       serial.serial_port)
              [] OTHER ->
                    /\ sapi' = IF serial.last_found_ip # None
                               THEN SReturn("get_ip_address", "success",
                                            serial.last_found_ip)
                               ELSE SReturn("get_ip_address", "warning", None)
                    /\ UNCHANGED serial
    /\ UNCHANGED <<read_threads, otherVars>>

\* serial_service.py:347-348, 364-365  the loop test: the stop event, the
\* port object and whether it is open; then data waiting leads to readline()
ReadLoop(r) ==
    /\ read_threads[r] = "loop"
    /\ read_threads' = [read_threads EXCEPT ![r] =
                            IF serial.stop_thread \/ ~serial.is_open
                            THEN "dead" ELSE "read"]
    /\ UNCHANGED <<serial, sapi, otherVars>>

\* serial_service.py:349-363  readline() on self.serial_port as it is now: a
\* closed port raises; a line may carry an address, which is stored; then
\* the callback
ReadLine(r) ==
    /\ read_threads[r] = "read"
    /\ IF ~serial.is_open
       THEN /\ read_threads' = [read_threads EXCEPT ![r] = "failed"]
            /\ UNCHANGED serial
       ELSE \E o \in {"ip", "noip", "error"} :
            /\ read_threads' = [read_threads EXCEPT ![r] =
                                    IF o = "error" THEN "failed" ELSE "loop"]
            /\ serial' = IF o = "ip"
                         THEN [serial EXCEPT !.last_found_ip = serial.serial_port]
                         ELSE serial
    /\ UNCHANGED <<sapi, otherVars>>

\* serial_service.py:366-369  except Exception: if self.is_connected:
\* self.disconnect(), run on the reader thread.  disconnect() sets the stop
\* event and joins self.read_thread if it is alive: when that is the reader
\* itself, join raises RuntimeError (a thread cannot join itself), which
\* disconnect() catches at 232-234 and returns an error, before the port is
\* closed and the flag cleared; when it is another thread or none, the join
\* returns and the port is closed.  Then the reader ends.
ReadFail(r) ==
    /\ read_threads[r] = "failed"
    /\ IF ~serial.is_connected
       THEN UNCHANGED serial
       ELSE IF serial.read_thread = r
       THEN serial' = [serial EXCEPT !.stop_thread = TRUE]
       ELSE /\ JoinReturns(serial.read_thread)
            /\ serial' = [serial EXCEPT !.stop_thread = TRUE, !.is_open = FALSE,
                                        !.is_connected = FALSE]
    /\ read_threads' = [read_threads EXCEPT ![r] = "dead"]
    /\ UNCHANGED <<sapi, otherVars>>

ReadThread(r) == ReadLoop(r) \/ ReadLine(r) \/ ReadFail(r)

\* The serial service: connections opened and closed, address queries, and
\* the reader threads
NextSerial ==
    \/ SerialConnect
    \/ SerialDisconnect
    \/ GetIpAddress
    \/ \E r \in Readers : ReadThread(r)

SpecSerial == Init /\ [][NextSerial]_vars

\* The job executor: the public operations, the workers and their client calls
Next ==
    \/ \E j \in JobIds : StartJob(j)
    \/ PauseJob
    \/ ResumeJob
    \/ StopJob
    \/ \E w \in Workers : RunJob(w)
    \/ \E w \in Workers : SendCommand(w)

Spec == Init /\ [][Next]_vars

\* The job executor without stop_job: jobs that are started, paused and
\* resumed, and run until the worker ends
NextRun ==
    \/ \E j \in JobIds : StartJob(j)
    \/ PauseJob
    \/ ResumeJob
    \/ \E w \in Workers : RunJob(w)
    \/ \E w \in Workers : SendCommand(w)

SpecRun == Init /\ [][NextRun]_vars

\* Jobs that are started and deleted, with the workers that run them.  The
\* file of a job whose worker has not read it yet cannot be deleted here: the
\* job is running from start_job on.
NextDel ==
    \/ \E j \in JobIds : StartJob(j)
    \/ \E j \in JobIds : DeleteJob(j)
    \/ \E w \in Workers : RunJob(w)
    \/ \E w \in Workers : SendCommand(w)

SpecDel == Init /\ [][NextDel]_vars

\* A job that is started and left alone: no pause_job, resume_job or stop_job.
\* The worker and the client calls it makes are threads that keep being
\* scheduled.
NextAlone ==
    \/ \E j \in JobIds : StartJob(j)
    \/ \E w \in Workers : RunJob(w)
    \/ \E w \in Workers : SendCommand(w)

SpecAlone ==
    /\ Init /\ [][NextAlone]_vars
    /\ \A w \in Workers : WF_vars(RunJob(w)) /\ WF_vars(SendCommand(w))

\* Jobs that are started, paused and deleted
NextHold ==
    \/ \E j \in JobIds : StartJob(j)
    \/ PauseJob
    \/ \E j \in JobIds : DeleteJob(j)
    \/ \E w \in Workers : RunJob(w)
    \/ \E w \in Workers : SendCommand(w)

SpecHold == Init /\ [][NextHold]_vars

\* job_manager.py:244-275  the state in which the first start_job(j) of a new
\* JobManager has returned success
InitStarted ==
    \E j \in JobIds :
        /\ jobs = [k \in JobIds |->
                     IF k = j THEN [NewJob EXCEPT !.status = "running",
                                                  !.start_time = TRUE]
                     ELSE NewJob]
        /\ registry = JobIds
        /\ current_job = j
        /\ job_thread = 1
        /\ stop_event = StartStopEvent
        /\ workers = [w \in Workers |->
                        IF w = 1 THEN [Unborn EXCEPT !.pc = "open", !.job = j]
                        ELSE Unborn]
        /\ api = Return("start", j, "success")
        /\ connected \in BOOLEAN
        /\ cc = [t \in Threads |-> NoCall]
        /\ is_homed = FALSE
        /\ brush_state = [b \in Brushes |-> [air |-> FALSE, paint |-> FALSE]]
        /\ position = [a \in Axes |-> 0]
        /\ mc = McIdle
        /\ sent = [w \in Workers |-> <<>>]
        /\ serial = NoPort
        /\ read_threads = [r \in Readers |-> "unborn"]
        /\ sapi = SIdle
        /\ last_gcode = Nobody

\* One started job that is paused and stopped with no later start_job, a
\* worker that is scheduled fairly and device requests that return
NextStop ==
    \/ PauseJob
    \/ StopJob
    \/ \E w \in Workers : RunJob(w)
    \/ \E w \in Workers : SendCommand(w)

SpecStop ==
    /\ InitStarted /\ [][NextStop]_vars
    /\ \A w \in Workers : WF_vars(RunJob(w)) /\ WF_vars(SendCommand(w))

\* A job that is started and left to run while emergency_stop is called on
\* the control thread: the worker and the manual command share the client
NextShare ==
    \/ \E j \in JobIds : StartJob(j)
    \/ \E w \in Workers : RunJob(w)
    \/ \E w \in Workers : SendCommand(w)
    \/ EmergencyStop
    \/ McCmdDone
    \/ EmergencyStopFinish
    \/ SendCommand(Caller)

SpecShare == Init /\ [][NextShare]_vars

\* Manual control: the MachineControl operations and the client under them
NextCtl ==
    \/ Home
    \/ SetBrush
    \/ SetBrushPaintFlow
    \/ EmergencyStop
    \/ Disconnect
    \/ Connect
    \/ TestConnection
    \/ IsConnected
    \/ McCmdDone
    \/ McWaitDone
    \/ HomeFinish
    \/ SetBrushFinish
    \/ EmergencyStopFinish
    \/ SendCommand(Caller)

SpecCtl == Init /\ [][NextCtl]_vars

\* Motion: homing, the motion routines, G-code files run by
\* process_gcode_file and emergency_stop, and the client calls under them
NextMove ==
    \/ Home
    \/ Jog
    \/ MoveTo
    \/ Park
    \/ CleanBrush
    \/ ProcessGcodeFile
    \/ FileLine
    \/ FileSent
    \/ FileEnd
    \/ EmergencyStop
    \/ McCmdDone
    \/ McWaitDone
    \/ HomeFinish
    \/ StepFinish
    \/ EmergencyStopFinish
    \/ SendCommand(Caller)

SpecMove == Init /\ [][NextMove]_vars

\* Position queries: M114 handed to send_gcode, for every reply of the form
\* 'X:x Y:y Z:z Count X:a Y:b Z:c' over the coordinate values
NextParse == HandleSpecialCommand

SpecParse == Init /\ [][NextParse]_vars

\* ======================================================================
\* Properties of the job executor
\* ======================================================================
Active == {"running", "paused"}
ActiveJobs == {j \in JobIds : jobs[j].status \in Active}

\* C1: at every instant at most one Job has status running or paused.
C1_SingleActiveJob == Cardinality(ActiveJobs) <= 1

\* C2: start_job(j) called while another job is running or paused returns an
\* error and changes nothing: not the slot, not the worker threads, and no
\* field of any job.
C2_SecondStartRejected ==
    [][\A j \in JobIds :
          (StartJob(j) /\ ActiveJobs \ {j} # {})
              => /\ api'.result = "error"
                 /\ UNCHANGED <<jobs, current_job, job_thread, workers>>]_vars

\* C3: a worker whose send_gcode returned a non-success result goes to the
\* failure handling (status failed, error with the line number) and nowhere
\* else, so it transmits no later line.
C3_ErrorResultFailsJob ==
    \A w \in Workers : workers[w].res = "error" => workers[w].pc = "fail"

\* C4: nothing is put on the wire while connected is false, unless the call
\* first made exactly one connect() attempt: for send_gcode (which the worker
\* streams through) and for send_command alike.
C4_NoSendWhileDisconnected ==
    [][/\ \A w \in Workers : RunSend(w) => connected
       /\ \A t \in Threads :
             SendCommandSubmit(t) => (connected \/ cc[t].connects = 1)]_vars

\* The lines of a file that are G-code: neither blank nor a comment
GCodeLines == {"G1", "M400"}
ExecLines(j) == SelectSeq([k \in 1..Len(File(j)) |-> k],
                          LAMBDA k : File(j)[k] \in GCodeLines)
IsPrefix(s, t) == Len(s) <= Len(t) /\ SubSeq(t, 1, Len(s)) = s
Completing(w) == workers[w].pc \in {"c_status", "c_rest", "c_slot", "finished"}

\* C7: whatever pause_job and resume_job calls interleave with a worker, the
\* lines it has transmitted are always the first executable lines of the file,
\* each once and in file order, and all of them once it has run to completion.
C7_EachLineOnceInOrder ==
    \A w \in Workers :
        workers[w].pc # "unborn" =>
            /\ IsPrefix(sent[w], ExecLines(WJob(w)))
            /\ Completing(w) => sent[w] = ExecLines(WJob(w))

\* a job ran to completion, having been paused and resumed on the way
C7_Witness ==
    \E w \in Workers :
        /\ job_thread = w
        /\ workers[w].pc = "finished"
        /\ jobs[WJob(w)].status = "completed"
        /\ api.op = "resume" /\ api.result = "success" /\ api.was = "running"
        /\ Len(sent[w]) >= 2

\* C8: when resume_job returns success right after a pause_job that paused a
\* running job and returned success, the job is running and its current_line
\* is what it was when pause_job returned.
C8_PauseResumeKeepsLine ==
    [][(ResumeReturn /\ api'.result = "success" /\ api.was = "running")
          => /\ jobs'[api.job].status = "running"
             /\ jobs'[api.job].current_line = api.line]_vars

\* C9: when stop_job, called on a running or paused job, returns success, the
\* stop event is set, that job is stopped with its end_time set, and the
\* current-job slot is empty.
C9_StopPostcondition ==
    [][(StopReturn /\ api'.result = "success" /\ api.was \in Active)
          => /\ stop_event'
             /\ jobs'[api.job].status = "stopped"
             /\ jobs'[api.job].end_time
             /\ current_job' = None]_vars

\* C10: at most one worker thread is alive at any instant.
AliveWorkers == {w \in Workers : Alive(w)}
C10_SingleWorker == Cardinality(AliveWorkers) <= 1

\* C11: the stop event is one-shot: once stop_job has set it, no later step of
\* any operation clears it.
C11_StopEventNeverReset == [][stop_event => stop_event']_vars

\* The edges of the Job state machine
Terminal == {"completed", "stopped", "failed"}
Edges == {<<"ready", "running">>, <<"running", "paused">>, <<"paused", "running">>}
             \cup (Active \X Terminal)

\* C12: every change of a job's status follows an edge of ready -> running ->
\* {paused <-> running} -> {completed | stopped | failed}; in particular no job
\* leaves a terminal status.
C12_StatusEdges ==
    [][\A j \in JobIds :
          jobs'[j].status # jobs[j].status
              => <<jobs[j].status, jobs'[j].status>> \in Edges]_vars

\* the current job has the given status
CurrentIs(st) == current_job # None /\ jobs[current_job].status = st

\* C13: pause_job takes effect and succeeds only on a current job whose status
\* is running, resume_job only on one whose status is paused; in every other
\* state the call returns an error and leaves every job's status unchanged.
C13_PauseResumeGuards ==
    [][/\ (PauseStore /\ ~CurrentIs("running"))
             => (api'.result = "error" /\ jobs' = jobs)
       /\ (ResumeStore /\ ~CurrentIs("paused"))
             => (api'.result = "error" /\ jobs' = jobs)
       /\ (PauseReturn /\ api'.result = "success") => api.was = "running"]_vars

\* a file without blank or comment lines
AllExecutable(j) == \A k \in 1..Len(File(j)) : ~IsSkipped(File(j)[k])

\* the end the scenario expects: completed, 100 percent, every line counted
RanToEnd(j) ==
    /\ jobs[j].status = "completed"
    /\ jobs[j].progress = <<100, 1>>
    /\ jobs[j].current_line = TotalLines(j)

\* C14: a job whose file has N lines, all executable, that is started and
\* neither paused nor stopped, reaches status completed with progress 100 and
\* current_line = N, unless a send raised and failed it.
C14_RunsToCompletion ==
    \A j \in JobIds :
        (AllExecutable(j) /\ jobs[j].status = "running")
            ~> (RanToEnd(j) \/ jobs[j].status = "failed")

\* a comment-free job has run to its end and its worker has returned
C14_Witness ==
    \E w \in Workers :
        /\ workers[w].pc = "finished"
        /\ AllExecutable(WJob(w)) /\ RanToEnd(WJob(w))
        /\ Len(sent[w]) = TotalLines(WJob(w))

\* C15: when a worker leaves _run_job after its loop exhausted the file, its
\* job is completed with progress exactly 100 and end_time set, and the
\* current-job slot is empty, so that the next start_job is accepted.
C15_NaturalCompletion ==
    [][\A w \in Workers :
          RunCompleteSlot(w)
              => /\ jobs'[WJob(w)].status = "completed"
                 /\ jobs'[WJob(w)].progress = <<100, 1>>
                 /\ jobs'[WJob(w)].end_time
                 /\ current_job' = None]_vars

\* order of two progress values <<numerator, denominator>>
ProgressLeq(p, q) == p[1] * q[2] <= q[1] * p[2]

\* C16: from one state to the next, the progress of a job whose status is
\* running in both never decreases.
C16_ProgressMonotone ==
    [][\A j \in JobIds :
          (jobs[j].status = "running" /\ jobs'[j].status = "running")
              => ProgressLeq(jobs[j].progress, jobs'[j].progress)]_vars

\* progress p is exactly current_line / total_lines * 100 of job j
IsLineRatio(j, p) == p[1] * TotalLines(j) = jobs[j].current_line * 100 * p[2]

\* a worker of job j stands between the two assignments of job_manager.py:423-424
MidUpdate(j) == \E w \in Workers : workers[w].pc = "prog" /\ WJob(w) = j

\* C17: whenever a job's status is running, its progress equals
\* current_line / total_lines * 100 (looked at when no worker stands between
\* its assignment of current_line and its assignment of progress).
C17_ProgressIsLineRatio ==
    \A j \in JobIds :
        (jobs[j].status = "running" /\ ~MidUpdate(j))
            => IsLineRatio(j, jobs[j].progress)

\* worker w ends the iteration of its i-th line and moves to the next
NextLine(w) == workers[w].i >= 1 /\ workers'[w].i = workers[w].i + 1

\* C18: when the loop has processed the i-th line of the file, whatever its
\* kind (executable, blank or comment), current_line is i.
C18_EveryLineCounted ==
    [][\A w \in Workers :
          NextLine(w) => jobs'[WJob(w)].current_line = workers[w].i]_vars

Snapshot(j) == jobs[j].status

\* job_manager.py:302, 329, 361  the api thread notifies with whatever the
\* slot holds; with an empty slot to_dict() raises and nothing is delivered
ApiNotifies(st) == current_job = api.job /\ Snapshot(api.job) = st

\* C20: the notification that follows a status transition delivers a
\* snapshot of that job showing the new status: paused after pause_job's
\* store, running after resume_job's, stopped after stop_job's, completed
\* after the worker's.
C20_TransitionsNotified ==
    [][/\ PauseReturn => ApiNotifies("paused")
       /\ ResumeReturn => ApiNotifies("running")
       /\ StopReturn => ApiNotifies("stopped")
       /\ \A w \in Workers :
             RunCompleteRest(w) => Snapshot(WJob(w)) = "completed"]_vars

\* ======================================================================
\* Properties of the client and of manual control
\* ======================================================================

\* C21: connect() never raises and returns the resulting value of connected;
\* connected is true afterwards only when the connect endpoint reported error
\* code 0 and the status probe succeeded, and false after a non-zero error
\* code or any network or parsing failure.
C21_ConnectResult ==
    (mc.pc = "idle" /\ mc.op = "connect") =>
        /\ mc.result \in {"true", "false"}
        /\ connected = (mc.result = "true")
        /\ connected = (mc.reply = "err0" /\ mc.probe = "ok")

\* C22: disconnect() always ends with connected false, whether or not the
\* notify request succeeded; called when already disconnected it sends
\* nothing and leaves connected false.
C22_DisconnectIdempotent ==
    [][Disconnect =>
          /\ ~connected'
          /\ mc'.pc = "idle" /\ mc'.result = "none"
          /\ ~connected => mc'.reqs = <<>>]_vars

\* disconnect() returned after a notify request that failed
C22_Witness ==
    /\ mc.pc = "idle" /\ mc.op = "disconnect"
    /\ mc.wasConn /\ mc.reply = "neterr" /\ mc.reqs = <<"rr_disconnect">>

\* C23: is_connected() probes the device status on every call, whatever the
\* value of the connected flag, and returns true exactly when that probe
\* succeeds.
C23_IsConnectedProbes ==
    [][IsConnected =>
          /\ mc'.reqs = <<"rr_status">>
          /\ (mc'.result = "true") = (mc'.probe = "ok")]_vars

\* C24: for the same connect reply and the same status-probe outcome,
\* test_connection() reports success exactly when connect() returns true.
C24_TestMatchesConnect ==
    [][TestConnection =>
          (mc'.result = "true") = (ConnectReturns(mc'.reply, mc'.probe) = "true")]_vars

\* C25: send_command_and_wait(cmd) transmits the barrier M400 after cmd if and
\* only if the send of cmd succeeded, and returns success only if both
\* succeeded; when cmd fails its error is returned and no barrier is sent.
C25_BarrierIffCommandSucceeded ==
    /\ mc.pc = "wait" =>
          /\ mc.cmdres = "success" /\ cc[Caller].cmd = "M400"
          /\ cc[Caller].pc = "done" => cc[Caller].submits = 1
    /\ (Waits(mc.op) /\ mc.pc \in {"finish", "idle"}) =>
          /\ (mc.barres # "none") = (mc.cmdres = "success")
          /\ (mc.sendres = "success") =
                (mc.cmdres = "success" /\ mc.barres = "success")
          /\ mc.cmdres = "error" => mc.sendres = "error"

\* a send_command_and_wait whose command succeeded and whose barrier failed
C25_Witness ==
    /\ mc.pc = "finish" /\ Waits(mc.op)
    /\ mc.cmdres = "success" /\ mc.barres = "error" /\ mc.sendres = "error"

\* C26: a position-query reply 'X:x Y:y Z:z Count X:a Y:b Z:c' is parsed to
\* the position {x: x, y: y, z: z}.
C26_PositionParsed ==
    (mc.op = "M114" /\ mc.result = "success") =>
        mc.parsed = [k \in {"x", "y", "z"} |->
                        CASE k = "x" -> mc.parts[1].val
                          [] k = "y" -> mc.parts[2].val
                          [] OTHER -> mc.parts[3].val]

\* C27: emergency_stop() sends M112 without waiting for a reply: after the
\* submit it issues no reply fetch and no motion-wait barrier.
C27_EStopNoReplyFetch ==
    (mc.op = "emergency_stop" /\ mc.pc # "idle") =>
        /\ mc.pc # "wait"
        /\ cc[Caller].cmd # "M400"
        /\ cc[Caller].pc # "reply"
        /\ cc[Caller].replies = 0

\* C28: set_brush_paint_flow(brush, pct) emits the servo angle that maps pct
\* linearly from paint_min (pct = 0) to paint_max (pct = 100), rounded to the
\* nearest integer, for limits in either order; pct = 50 with limits 10 and
\* 170 emits angle 90.
C28_FlowMapping ==
    (mc.pc = "idle" /\ mc.op = "set_brush_paint_flow") =>
        /\ mc.result \in {"success", "error"}
        /\ \E lim \in PaintLimits : mc.angle = ServoAngle(mc.pct, lim)

\* C29: jog, move_to, park and clean_brush called while homed is false return
\* an error before any device call: nothing is transmitted, and the cached
\* position, homed and the brush state are unchanged.
C29_NotHomedRefused ==
    [][((Jog \/ MoveTo \/ Park \/ CleanBrush) /\ ~is_homed) =>
          /\ mc'.pc = "idle" /\ mc'.result = "error"
          /\ mc'.log = <<>>
          /\ UNCHANGED <<cc, connected, position, is_homed, brush_state>>]_vars

\* a routine was refused on a machine that had been homed and moved, and has
\* lost homed since
C29_Witness ==
    /\ mc.pc = "idle" /\ mc.op \in ScriptOps /\ mc.result = "error"
    /\ mc.log = <<>> /\ ~is_homed /\ position # [a \in Axes |-> 0]

\* C30: park() issues the Z raise, with its barrier, strictly before the XY
\* move to the origin, and never issues the XY move if the Z raise failed.
C30_ParkRaisesFirst ==
    mc.op = "park" =>
        LET Raised == /\ Len(mc.log) >= 2
                      /\ mc.log[1] = [cmd |-> ZSafe.cmd, res |-> "success"]
                      /\ mc.log[2] = [cmd |-> "M400", res |-> "success"]
        IN  /\ cc[Caller].cmd = ParkXY.cmd => (Raised /\ Len(mc.log) = 2)
            /\ \A i \in 1..Len(mc.log) :
                  mc.log[i].cmd = ParkXY.cmd => (Raised /\ i = 3)

\* park() returned success: Z raise, barrier, XY move, barrier
C30_Witness ==
    /\ mc.pc = "idle" /\ mc.op = "park" /\ mc.result = "success"
    /\ Len(mc.log) = 4 /\ mc.log[3].cmd = ParkXY.cmd

\* C31: process_gcode_file aborts at the first failing command, transmits no
\* later command, and the error it returns names the failing line by its
\* 1-based index in the file, blank and comment lines counted.
C31_AbortsAtFailingLine ==
    mc.op = "process_gcode_file" =>
        /\ \A i \in 1..(Len(mc.log) - 1) : mc.log[i].res = "success"
        /\ (mc.pc = "idle" /\ mc.result = "error") =>
              /\ cc[Caller] = NoCall
              /\ mc.log[Len(mc.log)] =
                    [cmd |-> File(mc.file)[mc.step], res |-> "error"]
              /\ mc.errline = mc.step

\* C32: each open serial connection has exactly one reader thread: connect()
\* starts one, connect() while connected starts no other, and no reader
\* remains once disconnect() has returned success.
C32_OneReaderPerConnection ==
    /\ Cardinality(AliveReaders) <= 1
    /\ (sapi.pc = "idle" /\ sapi.op = "connect" /\ sapi.result = "success") =>
          Cardinality({r \in Readers : read_threads[r] # "unborn"}) =
              serial.serial_port
    /\ (sapi.pc = "idle" /\ sapi.op = "disconnect" /\ sapi.result = "success") =>
          AliveReaders = {}

\* C39: when a reader thread fails with a read error, its failure handling
\* leaves the service disconnected: is_connected false and the port closed.
C39_ReaderFailureDisconnects ==
    [][\A r \in Readers :
          ReadFail(r) => (~serial'.is_connected /\ ~serial'.is_open)]_vars

\* C40: an address returned by get_ip_address() was read on the serial
\* connection that is open now, never on an earlier, closed one.
C40_AddressOfThisConnection ==
    (sapi.pc = "idle" /\ sapi.op = "get_ip_address" /\ sapi.result = "success") =>
        sapi.ip = serial.serial_port

\* C33: submit and fetch of a send are not atomic with respect to other
\* callers: a send_command call receives the reply to its own command
\* exactly when no request of another thread reached the device between its
\* submit and its fetch, and a manual command's fetch can return the reply
\* to a job worker's command.
C33_ReplyOwnIffNotCrossed ==
    \A t \in Threads :
        (cc[t].pc = "done" /\ cc[t].result = "success") =>
            ((cc[t].got = t) <=> ~cc[t].crossed)

\* the emergency stop's fetch returned the reply to a line of the job worker
C33_Witness ==
    /\ cc[Caller].pc = "done" /\ cc[Caller].result = "success"
    /\ cc[Caller].cmd = "M112" /\ cc[Caller].got \in Workers

\* C34: once stop_job has raised the stop event, the worker begins no further
\* transmission of a line; in particular stopping a paused job transmits no
\* additional line: a worker that leaves the pause loop of a paused job with
\* the event raised does not go on to send.
C34_NoSendAfterStop ==
    [][\A w \in Workers :
          (/\ stop_event /\ stop_event'
           /\ workers[w].pc = "pausechk"
           /\ jobs[WJob(w)].status = "paused")
             => workers'[w].pc # "send"]_vars

\* C35: whenever the current-job slot is occupied, the occupying job is
\* running or paused (looked at when no job-manager call is in progress and
\* no worker is in the middle of an update): once a job has ended by any
\* path, a send that raises included, the slot is free for a new start_job.
C35_SlotHoldsActiveJob ==
    (current_job # None /\ api.pc = "idle" /\ AliveWorkers = {})
        => jobs[current_job].status \in Active

\* C36: after stop_job has returned success for a job, that job's worker
\* writes no more to the job manager's state: while that return is the last
\* thing the job manager's caller has seen, the stopped job's record and the
\* current-job slot do not change, even if the join timed out.
C36_NoWriteAfterStop ==
    [][(/\ api.pc = "idle" /\ api.op = "stop" /\ api.result = "success"
        /\ api' = api)
          => /\ jobs'[api.job] = jobs[api.job]
             /\ current_job' = current_job]_vars

\* C37: with sends that return and a fairly scheduled worker, once stop_job
\* has raised the stop event a live worker eventually leaves its loop, whether
\* its job was running or paused (no start_job follows the stop_job).
C37_StoppedWorkerExits ==
    \A w \in Workers : (stop_event /\ Alive(w)) ~> ~Alive(w)

\* the worker of a paused job has returned at the stop test after stop_job
C37_Witness ==
    \E w \in Workers :
        /\ stop_event /\ workers[w].pc = "dead"
        /\ api.op = "stop" /\ api.was = "paused" /\ api.job = WJob(w)
        /\ Len(sent[w]) >= 1
        /\ jobs[WJob(w)].error = NewJob.error

\* C38: the job in the current-job slot is always in the registry: a job
\* that is running or paused cannot be deleted.
C38_ActiveJobRegistered ==
    (current_job # None /\ jobs[current_job].status \in Active)
        => current_job \in registry

====
